---- MODULE Spec2Model ----
(***************************************************************************)
(* A model of src/app.py: the channel resolver (get_channel_id), the        *)
(* channel-info fetcher (get_channel_info), the uploads pagination loop and  *)
(* the report writer (get_channel_videos), the date parser                  *)
(* (parse_youtube_date) and the top-level handler (__main__).                *)
(*                                                                         *)
(* Text that the program parses (timestamps, statistics) is a sequence of    *)
(* one-character strings; text that it only copies (titles, identifiers) is  *)
(* a TLA+ string.  The remote API is the environment: each request draws     *)
(* its response, or its failure, from a small set.  Responses carry every    *)
(* key of the documented resource for the requested part; their values are   *)
(* arbitrary.                                                                *)
(***************************************************************************)
EXTENDS Integers, Sequences, FiniteSets, TLC

VARIABLES
    pc,               \* position of the run
    API_KEY,          \* os.getenv('YOUTUBE_API_KEY'): TRUE when set
    CHANNEL_URL,      \* os.getenv('YOUTUBE_CHANNEL_URL'), as its '@'-separated parts
    channel_username,
    channel_id,
    channel_info,
    playlist_id,
    videos,           \* the collected list
    next_page_token,
    requests,         \* the API requests issued so far, in order
    exactResp,        \* what the forUsername lookup answered
    searchResp,       \* what the channel search answered
    infoResp,         \* what the channel-info request answered
    playlistResp,     \* what the uploads-playlist request answered
    served,           \* the playlist pages answered so far (their items)
    failedPage,       \* number of the page request that failed, 0 if none
    lastCursor,       \* the cursor of the last page answered
    dirCreated,       \* os.makedirs ran
    fileOpened,       \* open(output_file, 'w') ran: the file is created/truncated
    fileHeader,       \* header lines written to the file
    fileBlocks,       \* video blocks written to the file
    result,           \* get_channel_videos' return value, None before
    raised,           \* the exception that left get_channel_videos, "none" if none
    stdout,           \* what __main__ printed
    date_str,         \* parser specification: the input
    parsed            \* parser specification: the result

vars == <<pc, API_KEY, CHANNEL_URL, channel_username, channel_id, channel_info,
          playlist_id, videos, next_page_token, requests, exactResp, searchResp,
          infoResp, playlistResp, served, failedPage, lastCursor, dirCreated, fileOpened, fileHeader,
          fileBlocks, result, raised, stdout, date_str, parsed>>

None == "None"

(***************************************************************************)
(* Characters and numbers.                                                  *)
(***************************************************************************)
Digits == <<"0", "1", "2", "3", "4", "5", "6", "7", "8", "9">>

IsDigit(c) == \E i \in 1..Len(Digits) : Digits[i] = c

DigitVal(c) == (CHOOSE i \in 1..Len(Digits) : Digits[i] = c) - 1

DigitChar(n) == Digits[n + 1]

\* n written with two / four decimal digits, zero padded
Fmt2(n) == <<DigitChar((n \div 10) % 10), DigitChar(n % 10)>>

Fmt4(n) == Fmt2(n \div 100) \o Fmt2(n % 100)

(***************************************************************************)
(* datetime.strptime(s, '%Y-%m-%dT%H:%M:%SZ')                               *)
(***************************************************************************)
ValueError == [exc |-> "ValueError", dt |-> <<>>]

Parsed(y, mo, d, h, mi, s) == [exc |-> "none", dt |-> <<y, mo, d, h, mi, s>>]

NoMatch == [ok |-> FALSE, val |-> 0, next |-> 0]

\* %Y: exactly four digits
YearAt(s, p) ==
    IF p + 3 <= Len(s) /\ \A k \in 0..3 : IsDigit(s[p + k])
    THEN [ok |-> TRUE,
          val |-> 1000 * DigitVal(s[p]) + 100 * DigitVal(s[p + 1])
                  + 10 * DigitVal(s[p + 2]) + DigitVal(s[p + 3]),
          next |-> p + 4]
    ELSE NoMatch

\* %m %d %H %M %S: two digits within lo2..hi2, else one digit >= lo1.  The
\* directive is followed by a literal that is no digit, so a two-digit text out
\* of range matches nothing.
FieldAt(s, p, lo2, hi2, lo1) ==
    IF p + 1 <= Len(s) /\ IsDigit(s[p]) /\ IsDigit(s[p + 1])
    THEN LET v == 10 * DigitVal(s[p]) + DigitVal(s[p + 1])
         IN  IF lo2 <= v /\ v <= hi2
             THEN [ok |-> TRUE, val |-> v, next |-> p + 2]
             ELSE NoMatch
    ELSE IF p <= Len(s) /\ IsDigit(s[p]) /\ DigitVal(s[p]) >= lo1
         THEN [ok |-> TRUE, val |-> DigitVal(s[p]), next |-> p + 1]
         ELSE NoMatch

\* %d also takes a blank followed by one digit 1..9
DayAt(s, p) ==
    IF p + 1 <= Len(s) /\ s[p] = " " /\ IsDigit(s[p + 1]) /\ DigitVal(s[p + 1]) >= 1
    THEN [ok |-> TRUE, val |-> DigitVal(s[p + 1]), next |-> p + 2]
    ELSE FieldAt(s, p, 1, 31, 1)

\* a literal of the format; the format is matched ignoring case
LitAt(s, p, cs) == p <= Len(s) /\ s[p] \in cs

IsLeap(y) == (y % 4 = 0 /\ y % 100 # 0) \/ y % 400 = 0

DaysInMonth(y, mo) ==
    IF mo = 2 THEN (IF IsLeap(y) THEN 29 ELSE 28)
    ELSE IF mo \in {4, 6, 9, 11} THEN 30 ELSE 31

\* the datetime constructor's range checks
ValidDateTime(y, mo, d, h, mi, s) ==
    /\ y >= 1
    /\ d <= DaysInMonth(y, mo)
    /\ s <= 59

Strptime(s) ==
    LET y  == YearAt(s, 1)
        mo == FieldAt(s, y.next + 1, 1, 12, 1)
        d  == DayAt(s, mo.next + 1)
        h  == FieldAt(s, d.next + 1, 0, 23, 0)
        mi == FieldAt(s, h.next + 1, 0, 59, 0)
        se == FieldAt(s, mi.next + 1, 0, 61, 0)
    IN  IF /\ y.ok  /\ LitAt(s, y.next, {"-"})
           /\ mo.ok /\ LitAt(s, mo.next, {"-"})
           /\ d.ok  /\ LitAt(s, d.next, {"T", "t"})
           /\ h.ok  /\ LitAt(s, h.next, {":"})
           /\ mi.ok /\ LitAt(s, mi.next, {":"})
           /\ se.ok /\ LitAt(s, se.next, {"Z", "z"})
           /\ se.next = Len(s)
           /\ ValidDateTime(y.val, mo.val, d.val, h.val, mi.val, se.val)
        THEN Parsed(y.val, mo.val, d.val, h.val, mi.val, se.val)
        ELSE ValueError

\* date_str.split('.')[0]: the text before the first '.', all of it if none
RECURSIVE SplitDotHead(_)
SplitDotHead(s) ==
    IF s = <<>> \/ Head(s) = "." THEN <<>>
    ELSE <<Head(s)>> \o SplitDotHead(Tail(s))

\* the first attempt, line 13
TruncatedParse(s) == Strptime(SplitDotHead(s) \o <<"Z">>)

\* the second attempt, line 16
FallbackParse(s) == Strptime(s)

parse_youtube_date_no_truncate(s) == FallbackParse(s)

parse_youtube_date(s) ==
    LET first == TruncatedParse(s)
    IN  IF first.exc = "none" THEN first ELSE FallbackParse(s)

\* str(n) of a natural number
RECURSIVE Decimal(_)
Decimal(n) == IF n < 10 THEN DigitChar(n) ELSE Decimal(n \div 10) \o DigitChar(n % 10)

MonthNames == <<"January", "February", "March", "April", "May", "June", "July",
                "August", "September", "October", "November", "December">>

\* dt.strftime('%B %d, %Y')
Strftime(dt) == MonthNames[dt[2]] \o " " \o Fmt2(dt[3])[1] \o Fmt2(dt[3])[2] \o ", "
                \o Decimal(dt[1])

(***************************************************************************)
(* int(text) and the ',' format of lines 166-168.                           *)
(***************************************************************************)
RECURSIVE DigitsValue(_, _)
DigitsValue(s, acc) ==
    IF s = <<>> THEN acc ELSE DigitsValue(Tail(s), 10 * acc + DigitVal(Head(s)))

\* int(s): a run of one or more decimal digits (signs, blanks and underscores,
\* which int() also takes, are outside the texts drawn here)
IntOf(s) ==
    IF s # <<>> /\ \A i \in 1..Len(s) : IsDigit(s[i])
    THEN [exc |-> "none", val |-> DigitsValue(s, 0)]
    ELSE [exc |-> "ValueError", val |-> 0]

\* f"{n:,}"
RECURSIVE Grouped(_)
Grouped(n) ==
    IF n < 1000 THEN Decimal(n)
    ELSE Grouped(n \div 1000) \o "," \o DigitChar((n \div 100) % 10)
         \o DigitChar((n \div 10) % 10) \o DigitChar(n % 10)

(***************************************************************************)
(* Bounds and the data the environment draws from.                          *)
(***************************************************************************)
\* pages in the uploads collection: the last one carries no cursor
MaxPages == 2

\* items on one page
MaxPageLen == 1

SeqsUpTo(S, n) == UNION {[1..k -> S] : k \in 0..n}

NoToken == <<>>

NoResult == <<>>

\* YOUTUBE_CHANNEL_URL: unset, without an '@', with one
ChannelUrls == {<<>>, <<"https://www.youtube.com/testchan">>,
                <<"https://www.youtube.com/", "testchan">>}

TsPlain == Fmt4(2023) \o <<"-">> \o Fmt2(5) \o <<"-">> \o Fmt2(1) \o <<"T">>
           \o Fmt2(12) \o <<":">> \o Fmt2(0) \o <<":">> \o Fmt2(0) \o <<"Z">>

TsFraction == SubSeq(TsPlain, 1, Len(TsPlain) - 1) \o <<".", "1", "2", "3", "4", "5", "6", "Z">>

TsMalformed == <<"N", "/", "A">>

\* items of a playlistItems.list response (snippet part), flattened
Items == {
    [title |-> "First", description |-> "d1", publishedAt |-> TsPlain, videoId |-> "vid1"],
    [title |-> "Second", description |-> "d2", publishedAt |-> TsFraction, videoId |-> "vid2"],
    [title |-> "", description |-> "", publishedAt |-> TsMalformed, videoId |-> ""] }

\* items of a channels.list(forUsername) response (id part)
ExactItemLists == {<<>>, <<[id |-> "UC_e1"]>>, <<[id |-> "UC_e2"], [id |-> "UC_e1"]>>}

\* items of a search.list response (snippet part, maxResults=1)
SearchItemLists == {<<>>, <<[id |-> [channelId |-> "UC_hit"],
                            snippet |-> [channelId |-> "UC123"]]>>}

\* items of a channels.list(id) response (snippet, statistics, contentDetails);
\* customUrl and country are optional keys, None when the response lacks them
ChannelItems == {
    [title |-> "Test", description |-> "about", customUrl |-> "@testchan",
     publishedAt |-> TsPlain, viewCount |-> <<"1", "2", "3", "4", "5", "6", "7">>,
     subscriberCount |-> <<"1", "0", "0", "0">>, videoCount |-> <<"5", "3">>,
     country |-> "US", uploads |-> "UU123"],
    [title |-> "Test", description |-> "about", customUrl |-> None,
     publishedAt |-> TsFraction, viewCount |-> <<"0">>,
     subscriberCount |-> <<"9", "9", "9">>, videoCount |-> <<"2">>,
     country |-> None, uploads |-> "UU123"],
    [title |-> "Test", description |-> "about", customUrl |-> None,
     publishedAt |-> TsMalformed, viewCount |-> <<"0">>,
     subscriberCount |-> <<"1">>, videoCount |-> <<"2">>,
     country |-> None, uploads |-> "UU123"],
    [title |-> "Test", description |-> "about", customUrl |-> None,
     publishedAt |-> TsPlain, viewCount |-> <<"1", "2">>,
     subscriberCount |-> <<"1">>, videoCount |-> <<"n", "/", "a">>,
     country |-> "US", uploads |-> "UU123"] }

\* the failure of a request: .execute() raises
HttpError == "HttpError"

(***************************************************************************)
(* The run of get_channel_videos under __main__.                            *)
(***************************************************************************)
Request(op, arg) == [op |-> op, arg |-> arg]

\* channel_info before line 102 assigns it
NoChannelInfo ==
    [title |-> "", description |-> "", customUrl |-> "", publishedAt |-> <<>>,
     viewCount |-> <<>>, subscriberCount |-> <<>>, videoCount |-> <<>>, country |-> ""]

\* the parser specification's result before the parser ran
NotParsed == [exc |-> "unset", dt |-> <<>>]

\* an answer: its kind ("items", "empty", "error"; "none" before) and its items
Response(kind, items) == [kind |-> kind, items |-> items]

NoResponse == Response("none", <<>>)

Init ==
    /\ pc = "config"
    /\ API_KEY \in BOOLEAN
    /\ CHANNEL_URL \in ChannelUrls
    /\ channel_username = None
    /\ channel_id = None
    /\ channel_info = NoChannelInfo
    /\ playlist_id = None
    /\ videos = <<>>
    /\ next_page_token = NoToken
    /\ requests = <<>>
    /\ exactResp = NoResponse
    /\ searchResp = NoResponse
    /\ infoResp = "none"
    /\ playlistResp = "none"
    /\ served = <<>>
    /\ failedPage = 0
    /\ lastCursor = NoToken
    /\ dirCreated = FALSE
    /\ fileOpened = FALSE
    /\ fileHeader = <<>>
    /\ fileBlocks = <<>>
    /\ result = NoResult
    /\ raised = "none"
    /\ stdout = <<>>
    /\ date_str = <<>>
    /\ parsed = NotParsed

\* an exception leaves get_channel_videos: control is at __main__'s except
Raise(e) ==
    /\ raised' = e
    /\ pc' = "main"

envVars == <<API_KEY, CHANNEL_URL>>

respVars == <<exactResp, searchResp, infoResp, playlistResp>>

fileVars == <<dirCreated, fileOpened, fileHeader, fileBlocks>>

pageVars == <<videos, next_page_token, served, failedPage, lastCursor>>

dateVars == <<date_str, parsed>>

\* lines 82-95: the configuration and the handle cut out of the URL
LoadConfig ==
    /\ pc = "config"
    /\ IF ~API_KEY \/ CHANNEL_URL = <<>>
       THEN Raise("ValueError: Missing required environment variables")
            /\ UNCHANGED channel_username
       ELSE IF Len(CHANNEL_URL) < 2
       THEN Raise("IndexError") /\ UNCHANGED channel_username
       ELSE /\ channel_username' = CHANNEL_URL[2]
            /\ pc' = "exact"
            /\ UNCHANGED raised
    /\ UNCHANGED <<envVars, channel_id, channel_info, playlist_id, pageVars, requests,
                   respVars, fileVars, result, stdout, dateVars>>

\* response['items'][0]['id'], line 32
ExactLookupIdLast(items) == items[Len(items)].id

ExactLookupId(items) == items[1].id

\* lines 24-34: method 1, the forUsername lookup; an exception is swallowed
ExactLookup ==
    /\ pc = "exact"
    /\ requests' = Append(requests, Request("channels.list(forUsername)", channel_username))
    /\ \/ \E items \in ExactItemLists :
            IF items # <<>>
            THEN /\ exactResp' = Response("items", items)
                 /\ channel_id' = ExactLookupId(items)
                 /\ pc' = "info"
            ELSE /\ exactResp' = Response("empty", items)
                 /\ pc' = "search"
                 /\ UNCHANGED channel_id
       \/ /\ exactResp' = Response("error", <<>>)
          /\ pc' = "search"
          /\ UNCHANGED channel_id
    /\ UNCHANGED <<envVars, channel_username, channel_info, playlist_id, pageVars,
                   searchResp, infoResp, playlistResp, fileVars, result, raised,
                   stdout, dateVars>>

\* response['items'][0]['snippet']['channelId'], line 46
SearchHitIdField(items) == items[1].id.channelId

SearchHitId(items) == items[1].snippet.channelId

SearchLookupReturnsNone ==
    /\ pc = "search"
    /\ requests' = Append(requests, Request("search.list", channel_username))
    /\ \/ \E items \in SearchItemLists :
            IF items # <<>>
            THEN /\ searchResp' = Response("items", items)
                 /\ channel_id' = SearchHitId(items)
            ELSE /\ searchResp' = Response("empty", items)
                 /\ channel_id' = None
       \/ /\ searchResp' = Response("error", <<>>)
          /\ channel_id' = None
    /\ pc' = "info"
    /\ UNCHANGED <<envVars, channel_username, channel_info, playlist_id, pageVars,
                   exactResp, infoResp, playlistResp, fileVars, result, raised,
                   stdout, dateVars>>

\* lines 36-50: method 2, the channel search; an exception is swallowed, and
\* with no hit the resolver raises
SearchLookup ==
    /\ pc = "search"
    /\ requests' = Append(requests, Request("search.list", channel_username))
    /\ \/ \E items \in SearchItemLists :
            IF items # <<>>
            THEN /\ searchResp' = Response("items", items)
                 /\ channel_id' = SearchHitId(items)
                 /\ pc' = "info"
                 /\ UNCHANGED raised
            ELSE /\ searchResp' = Response("empty", items)
                 /\ Raise("ValueError: Could not find channel ID")
                 /\ UNCHANGED channel_id
       \/ /\ searchResp' = Response("error", <<>>)
          /\ Raise("ValueError: Could not find channel ID")
          /\ UNCHANGED channel_id
    /\ UNCHANGED <<envVars, channel_username, channel_info, playlist_id, pageVars,
                   exactResp, infoResp, playlistResp, fileVars, result, stdout,
                   dateVars>>

\* dict.get(key, default)
GetOr(v, default) == IF v = None THEN default ELSE v

\* lines 64-74: the dictionary get_channel_info returns
ChannelInfoOf(channel_data) ==
    [title |-> channel_data.title,
     description |-> channel_data.description,
     customUrl |-> GetOr(channel_data.customUrl, "N/A"),
     publishedAt |-> channel_data.publishedAt,
     viewCount |-> channel_data.viewCount,
     subscriberCount |-> channel_data.subscriberCount,
     videoCount |-> channel_data.videoCount,
     country |-> GetOr(channel_data.country, "N/A")]

\* lines 52-74 and 101-103: the request is made outside any try
GetChannelInfo ==
    /\ pc = "info"
    /\ requests' = Append(requests, Request("channels.list(id,info)", channel_id))
    /\ \/ \E items \in {<<>>} \cup {<<c>> : c \in ChannelItems} :
            IF items = <<>>
            THEN /\ infoResp' = "empty"
                 /\ Raise("ValueError: Could not fetch channel information")
                 /\ UNCHANGED channel_info
            ELSE /\ infoResp' = "items"
                 /\ channel_info' = ChannelInfoOf(items[1])
                 /\ pc' = "playlist"
                 /\ UNCHANGED raised
       \/ /\ infoResp' = "error"
          /\ Raise(HttpError)
          /\ UNCHANGED channel_info
    /\ UNCHANGED <<envVars, channel_username, channel_id, playlist_id, pageVars,
                   exactResp, searchResp, playlistResp, fileVars, result, stdout,
                   dateVars>>

\* lines 105-119: the uploads playlist of the channel, then the loop's variables
GetUploadsPlaylist ==
    /\ pc = "playlist"
    /\ requests' = Append(requests, Request("channels.list(id,contentDetails)", channel_id))
    /\ \/ \E items \in {<<>>} \cup {<<c>> : c \in ChannelItems} :
            IF items = <<>>
            THEN /\ playlistResp' = "empty"
                 /\ Raise("ValueError: Could not find upload playlist")
                 /\ UNCHANGED <<playlist_id, videos, next_page_token>>
            ELSE /\ playlistResp' = "items"
                 /\ playlist_id' = items[1].uploads
                 /\ videos' = <<>>
                 /\ next_page_token' = NoToken
                 /\ pc' = "page"
                 /\ UNCHANGED raised
       \/ /\ playlistResp' = "error"
          /\ Raise(HttpError)
          /\ UNCHANGED <<playlist_id, videos, next_page_token>>
    /\ UNCHANGED <<envVars, channel_username, channel_id, channel_info, served,
                   failedPage, lastCursor, exactResp, searchResp, infoResp, fileVars,
                   result, stdout, dateVars>>

WatchUrl == "https://www.youtube.com/watch?v="

\* lines 131-138: the record made of one item
VideoDataUrlFromTitle(item) ==
    [title |-> item.title, description |-> item.description,
     publishedAt |-> item.publishedAt, videoId |-> item.videoId,
     url |-> WatchUrl \o item.title]

VideoData(item) ==
    [title |-> item.title, description |-> item.description,
     publishedAt |-> item.publishedAt, videoId |-> item.videoId,
     url |-> WatchUrl \o item.videoId]

\* lines 130-139: the items of one page appended in their order
RECURSIVE MapItems(_)
MapItems(items) ==
    IF items = <<>> THEN <<>> ELSE <<VideoData(Head(items))>> \o MapItems(Tail(items))

\* what the upstream may answer to the request for page k of the collection
PageResponses(k) ==
    [items : SeqsUpTo(Items, MaxPageLen),
     nextPageToken : IF k < MaxPages THEN {NoToken, <<k + 1>>} ELSE {NoToken}]

FetchPageRetries ==
    /\ pc = "page"
    /\ requests' = Append(requests, Request("playlistItems.list", next_page_token))
    /\ LET k == Len(served) + 1
       IN  \/ \E resp \in PageResponses(k) :
                /\ videos' = videos \o MapItems(resp.items)
                /\ next_page_token' = resp.nextPageToken
                /\ served' = Append(served, resp.items)
                /\ lastCursor' = resp.nextPageToken
                /\ pc' = IF resp.nextPageToken = NoToken THEN "check" ELSE "page"
                /\ UNCHANGED failedPage
           \/ /\ failedPage' = k
              /\ pc' = "page"
              /\ UNCHANGED <<videos, next_page_token, served, lastCursor>>
    /\ UNCHANGED <<envVars, channel_username, channel_id, channel_info, playlist_id,
                   respVars, fileVars, result, raised, stdout, dateVars>>

FetchPageStopsAfterFirst ==
    /\ pc = "page"
    /\ requests' = Append(requests, Request("playlistItems.list", next_page_token))
    /\ LET k == Len(served) + 1
       IN  \/ \E resp \in PageResponses(k) :
                /\ videos' = videos \o MapItems(resp.items)
                /\ next_page_token' = resp.nextPageToken
                /\ served' = Append(served, resp.items)
                /\ lastCursor' = resp.nextPageToken
                /\ pc' = "check"
                /\ UNCHANGED failedPage
           \/ /\ failedPage' = k
              /\ pc' = "check"
              /\ UNCHANGED <<videos, next_page_token, served, lastCursor>>
    /\ UNCHANGED <<envVars, channel_username, channel_id, channel_info, playlist_id,
                   respVars, fileVars, result, raised, stdout, dateVars>>

\* lines 121-148: one turn of the loop.  The request raises (the handler prints
\* the error and breaks), or its items are appended and the cursor is read.
FetchPage ==
    /\ pc = "page"
    /\ requests' = Append(requests, Request("playlistItems.list", next_page_token))
    /\ LET k == Len(served) + 1
       IN  \/ \E resp \in PageResponses(k) :
                /\ videos' = videos \o MapItems(resp.items)
                /\ next_page_token' = resp.nextPageToken
                /\ served' = Append(served, resp.items)
                /\ lastCursor' = resp.nextPageToken
                /\ pc' = IF resp.nextPageToken = NoToken THEN "check" ELSE "page"
                /\ UNCHANGED failedPage
           \/ /\ failedPage' = k
              /\ pc' = "check"
              /\ UNCHANGED <<videos, next_page_token, served, lastCursor>>
    /\ UNCHANGED <<envVars, channel_username, channel_id, channel_info, playlist_id,
                   respVars, fileVars, result, raised, stdout, dateVars>>

\* lines 150-160: nothing collected, return 0; else make the directory and open
\* the file for writing, which creates or truncates it
CheckVideos ==
    /\ pc = "check"
    /\ IF videos = <<>>
       THEN /\ result' = <<0>>
            /\ pc' = "main"
            /\ UNCHANGED fileVars
       ELSE /\ dirCreated' = TRUE
            /\ fileOpened' = TRUE
            /\ fileHeader' = <<>>
            /\ fileBlocks' = <<>>
            /\ pc' = "header"
            /\ UNCHANGED result
    /\ UNCHANGED <<envVars, channel_username, channel_id, channel_info, playlist_id,
                   pageVars, requests, respVars, raised, stdout, dateVars>>

Line(text) == [exc |-> "none", text |-> text]

\* a line whose f-string formats a parsed date
DateLine(label, ts) ==
    LET p == parse_youtube_date(ts)
    IN  IF p.exc = "none" THEN Line(label \o Strftime(p.dt))
        ELSE [exc |-> "ValueError", text |-> ""]

\* a line whose f-string formats int(text)
CountLine(label, text) ==
    LET n == IntOf(text)
    IN  IF n.exc = "none" THEN Line(label \o Grouped(n.val))
        ELSE [exc |-> "ValueError", text |-> ""]

Rule == "=================================================="

Dashes == "--------------------------------------------------"

\* lines 162-176: the header's writes in order, each with what its f-string
\* evaluates to, a line or an exception
HeaderWrites(info, url) ==
    << Line("Channel Information: " \o info.title \o "\n"),
       Line(Rule \o "\n\n"),
       Line("Channel URL: " \o url[1] \o "@" \o url[2] \o "\n"),
       DateLine("Created: ", info.publishedAt),
       CountLine("Subscribers: ", info.subscriberCount),
       CountLine("Total Views: ", info.viewCount),
       CountLine("Total Videos: ", info.videoCount),
       Line("Country: " \o info.country \o "\n\n"),
       Line("Channel Description:\n"),
       Line(info.description \o "\n\n"),
       Line(Rule \o "\n"),
       Line("Videos\n"),
       Line(Rule \o "\n\n") >>

\* the first write that raises, Len + 1 if none does
FirstRaise(writes) ==
    IF \E i \in 1..Len(writes) : writes[i].exc # "none"
    THEN CHOOSE i \in 1..Len(writes) :
            /\ writes[i].exc # "none"
            /\ \A j \in 1..(i - 1) : writes[j].exc = "none"
    ELSE Len(writes) + 1

\* lines 162-176: the writes before the first that raises reach the file
WriteHeader ==
    /\ pc = "header"
    /\ LET writes == HeaderWrites(channel_info, CHANNEL_URL)
           stop == FirstRaise(writes)
       IN  /\ fileHeader' = [i \in 1..(stop - 1) |-> writes[i].text]
           /\ IF stop <= Len(writes)
              THEN Raise(writes[stop].exc)
              ELSE pc' = "videos" /\ UNCHANGED raised
    /\ UNCHANGED <<envVars, channel_username, channel_id, channel_info, playlist_id,
                   pageVars, requests, respVars, dirCreated, fileOpened,
                   fileBlocks, result, stdout, dateVars>>

\* lines 182-186: the block of one video
VideoBlock(video, formatted_date) ==
    [title |-> "Title: " \o video.title \o "\n",
     posted |-> "Posted: " \o formatted_date \o "\n",
     url |-> "URL: " \o video.url \o "\n",
     description |-> "Description:\n" \o video.description \o "\n",
     rule |-> Dashes \o "\n\n"]

\* lines 179-186: one turn of the writing loop; the date is parsed before the
\* block's first write
WriteVideo ==
    /\ pc = "videos"
    /\ Len(fileBlocks) < Len(videos)
    /\ LET video == videos[Len(fileBlocks) + 1]
           p == parse_youtube_date(video.publishedAt)
       IN  IF p.exc # "none"
           THEN Raise(p.exc) /\ UNCHANGED fileBlocks
           ELSE /\ fileBlocks' = Append(fileBlocks, VideoBlock(video, Strftime(p.dt)))
                /\ UNCHANGED <<pc, raised>>
    /\ UNCHANGED <<envVars, channel_username, channel_id, channel_info, playlist_id,
                   pageVars, requests, respVars, dirCreated, fileOpened,
                   fileHeader, result, stdout, dateVars>>

\* line 188: the loop is over, the file is closed, the count is returned
ReturnCount ==
    /\ pc = "videos"
    /\ Len(fileBlocks) = Len(videos)
    /\ result' = <<Len(videos)>>
    /\ pc' = "main"
    /\ UNCHANGED <<envVars, channel_username, channel_id, channel_info, playlist_id,
                   pageVars, requests, respVars, fileVars, raised, stdout,
                   dateVars>>

\* lines 190-196: the count is reported when positive, an exception is printed
Main ==
    /\ pc = "main"
    /\ stdout' = IF raised # "none" THEN <<"An error occurred", raised>>
                 ELSE IF result[1] > 0 THEN <<"Successfully saved", result[1]>>
                 ELSE <<>>
    /\ pc' = "exit"
    /\ UNCHANGED <<envVars, channel_username, channel_id, channel_info, playlist_id,
                   pageVars, requests, respVars, fileVars, result, raised,
                   dateVars>>

Next ==
    \/ LoadConfig
    \/ ExactLookup
    \/ SearchLookup
    \/ GetChannelInfo
    \/ GetUploadsPlaylist
    \/ FetchPage
    \/ CheckVideos
    \/ WriteHeader
    \/ WriteVideo
    \/ ReturnCount
    \/ Main

Spec == Init /\ [][Next]_vars

\* a page request returns or raises, and the rest of the turn is plain code:
\* a turn of the loop that has begun is completed
FairSpec == Spec /\ WF_vars(FetchPage)

(***************************************************************************)
(* The date parser on its own: an input is drawn, parse_youtube_date is      *)
(* applied to it.                                                           *)
(***************************************************************************)
\* characters of a fractional suffix
MaxFracLen == 2

FracChars == {"0", "7", "x", "."}

FracSuffixes == SeqsUpTo(FracChars, MaxFracLen)

\* calendar fields, in and out of range
DateFields ==
    [y : {0, 2023, 2024}, mo : {2, 5, 12, 13}, d : {1, 29, 31},
     h : {0, 23, 24}, mi : {59}, s : {0, 59, 60}]

\* YYYY-MM-DDTHH:MM:SS of the fields, as the upstream writes it
IsoBody(f) ==
    Fmt4(f.y) \o <<"-">> \o Fmt2(f.mo) \o <<"-">> \o Fmt2(f.d) \o <<"T">>
    \o Fmt2(f.h) \o <<":">> \o Fmt2(f.mi) \o <<":">> \o Fmt2(f.s)

WithoutFraction(f) == IsoBody(f) \o <<"Z">>

WithFraction(f, frac) == IsoBody(f) \o <<".">> \o frac \o <<"Z">>

DateInputs ==
    {WithoutFraction(f) : f \in DateFields}
    \cup {WithFraction(f, frac) : f \in DateFields, frac \in FracSuffixes}
    \cup {IsoBody(f) : f \in DateFields}
    \cup {IsoBody(f) \o <<"Z", "Z">> : f \in DateFields}
    \cup {<<>>, TsMalformed}

InitDate ==
    /\ pc = "date"
    /\ date_str \in DateInputs
    /\ parsed = NotParsed
    /\ API_KEY = FALSE
    /\ CHANNEL_URL = <<>>
    /\ channel_username = None
    /\ channel_id = None
    /\ channel_info = NoChannelInfo
    /\ playlist_id = None
    /\ videos = <<>>
    /\ next_page_token = NoToken
    /\ requests = <<>>
    /\ exactResp = NoResponse
    /\ searchResp = NoResponse
    /\ infoResp = "none"
    /\ playlistResp = "none"
    /\ served = <<>>
    /\ failedPage = 0
    /\ lastCursor = NoToken
    /\ dirCreated = FALSE
    /\ fileOpened = FALSE
    /\ fileHeader = <<>>
    /\ fileBlocks = <<>>
    /\ result = NoResult
    /\ raised = "none"
    /\ stdout = <<>>

\* lines 7-16 applied to the input
ParseDate ==
    /\ pc = "date"
    /\ parsed' = parse_youtube_date(date_str)
    /\ pc' = "date_done"
    /\ UNCHANGED <<envVars, channel_username, channel_id, channel_info, playlist_id,
                   pageVars, requests, respVars, fileVars, result, raised, stdout,
                   date_str>>

NextDate == ParseDate

SpecDate == InitDate /\ [][NextDate]_vars

(***************************************************************************)
(* Properties.                                                              *)
(***************************************************************************)
RECURSIVE Flatten(_)
Flatten(pages) == IF pages = <<>> THEN <<>> ELSE Head(pages) \o Flatten(Tail(pages))

\* the record the specification asks of one upstream item
ExpectedRecord(item) ==
    [title |-> item.title, description |-> item.description,
     publishedAt |-> item.publishedAt, videoId |-> item.videoId,
     url |-> "https://www.youtube.com/watch?v=" \o item.videoId]

ExpectedRecords(items) == [i \in 1..Len(items) |-> ExpectedRecord(items[i])]

PageRequests == SelectSeq(requests, LAMBDA r : r.op = "playlistItems.list")

SearchRequests == SelectSeq(requests, LAMBDA r : r.op = "search.list")

\* pagination has started and is over
PaginationOver == playlist_id # None /\ pc # "page"

\* C1: when the k-th page request fails, pagination is over without an error
\* raised, the collected list is exactly the records of pages 1..k-1 in order,
\* and the failed request is the last page request made.
C1_PartialFailure ==
    failedPage # 0 =>
        /\ pc # "page"
        /\ raised # HttpError
        /\ (pc = "check" => raised = "none")
        /\ Len(served) = failedPage - 1
        /\ videos = ExpectedRecords(Flatten(served))
        /\ Len(PageRequests) = failedPage

C1_Witness ==
    /\ failedPage = 2
    /\ pc = "check"
    /\ Len(videos) = 1

\* the safety part of C2: with no page request failing, a loop that has stopped
\* has stopped on a response without a next cursor, and the
\* collected list is as long as all the items of all the pages served.
C2_StopsComplete ==
    (PaginationOver /\ failedPage = 0) =>
        /\ lastCursor = NoToken
        /\ served # <<>>
        /\ Len(videos) = Len(Flatten(served))
        /\ Len(PageRequests) = Len(served)

\* C2, with termination: in every state the above holds, and a loop that is
\* running eventually stops.
C2_TerminatesComplete ==
    /\ [](C2_StopsComplete)
    /\ (pc = "page") ~> (pc # "page")

C2_Witness ==
    /\ pc = "check"
    /\ failedPage = 0
    /\ Len(served) = MaxPages
    /\ Len(videos) >= 2

\* C3: when the exact lookup answers at least one item, the resolver returns
\* the first item's identifier and no search request is ever issued.
C3_ExactWins ==
    exactResp.items # <<>> =>
        /\ channel_id = exactResp.items[1].id
        /\ pc # "search"
        /\ SearchRequests = <<>>
        /\ searchResp = NoResponse

C3_Witness ==
    /\ Len(exactResp.items) = 2
    /\ pc = "exit"

\* C4: when the exact lookup answers no item or fails, and the search answers
\* at least one item, the search was issued right after the exact lookup, the
\* resolver returns the channelId of the first hit's snippet, and no error of
\* the resolver reaches the caller.
C4_SearchFallback ==
    (exactResp.kind \in {"empty", "error"} /\ searchResp.items # <<>>) =>
        /\ channel_id = searchResp.items[1].snippet.channelId
        /\ Len(requests) >= 2
        /\ requests[1].op = "channels.list(forUsername)"
        /\ requests[2].op = "search.list"
        /\ (pc = "info" => raised = "none")
        /\ raised # "ValueError: Could not find channel ID"

C4_Witness ==
    /\ exactResp.kind = "error"
    /\ searchResp.kind = "items"
    /\ pc = "info"

NotFound ==
    \/ exactResp.kind \in {"empty", "error"} /\ searchResp.kind \in {"empty", "error"}
    \/ infoResp = "empty"
    \/ playlistResp = "empty"

\* C5: when neither lookup finds the channel, or the channel-info request or
\* the uploads request answers no item, the run ends with an error at the top
\* level, no playlist page is ever requested and no output is created.
C5_NotFoundFatal ==
    NotFound =>
        /\ pc \in {"main", "exit"}
        /\ raised \in {"ValueError: Could not find channel ID",
                       "ValueError: Could not fetch channel information",
                       "ValueError: Could not find upload playlist"}
        /\ result = NoResult
        /\ PageRequests = <<>>
        /\ ~dirCreated
        /\ ~fileOpened
        /\ fileHeader = <<>> /\ fileBlocks = <<>>
        /\ (pc = "exit" => stdout = <<"An error occurred", raised>>)

C5_Witness ==
    /\ exactResp.kind = "error"
    /\ searchResp.kind = "empty"
    /\ pc = "exit"

\* the whole header and one block for every collected record
HeaderLineCount == Len(HeaderWrites(NoChannelInfo, <<"", "">>))

FileComplete ==
    /\ Len(fileHeader) = HeaderLineCount
    /\ Len(fileBlocks) = Len(videos)

\* C6: at the end of a run that went through pagination, the file is opened
\* exactly when a record was collected; with none, 0 is returned and neither
\* the directory nor the file is touched; after a failed page request with
\* records collected, the file holds the records collected so far.
C6_WrittenIffCollected ==
    (pc = "exit" /\ playlist_id # None) =>
        /\ fileOpened <=> videos # <<>>
        /\ videos = <<>> => (result = <<0>> /\ ~dirCreated /\ ~fileOpened)
        /\ (failedPage # 0 /\ videos # <<>>) => FileComplete

WroteToCompletion ==
    /\ pc \in {"main", "exit"}
    /\ fileOpened
    /\ raised = "none"

\* C7: a run that writes the file to completion wrote one block per collected
\* record, in the order the upstream returned the items over the pages, each
\* with the watch URL of its video id, and returns the number of blocks.
C7_BlocksInUpstreamOrder ==
    WroteToCompletion =>
        LET items == Flatten(served)
        IN  /\ Len(fileBlocks) = Len(items)
            /\ Len(videos) = Len(items)
            /\ \A i \in 1..Len(items) :
                 /\ fileBlocks[i].url =
                      "URL: https://www.youtube.com/watch?v=" \o items[i].videoId \o "\n"
                 /\ fileBlocks[i].title = "Title: " \o items[i].title \o "\n"
                 /\ fileBlocks[i].description =
                      "Description:\n" \o items[i].description \o "\n"
            /\ result = <<Len(fileBlocks)>>

C7_Witness ==
    /\ pc = "exit"
    /\ raised = "none"
    /\ Len(served) = 2
    /\ Len(fileBlocks) = 2
    /\ fileBlocks[1].url # fileBlocks[2].url

\* C8: every record of the collected list has a non-empty video identifier and
\* a non-empty title.
C8_RecordsNonEmpty ==
    \A i \in 1..Len(videos) : videos[i].videoId # "" /\ videos[i].title # ""

\* C10: at the end of every run the file is untouched or complete.
C10_AllOrNothing ==
    pc = "exit" => (~fileOpened \/ FileComplete)

\* a well-formed UTC timestamp: fields of a calendar date and a time of day
WellFormed(f) ==
    /\ f.y \in 1..9999
    /\ f.mo \in 1..12
    /\ f.d \in 1..DaysInMonth(f.y, f.mo)
    /\ f.h \in 0..23
    /\ f.mi \in 0..59
    /\ f.s \in 0..59

\* the text after the 19 characters of YYYY-MM-DDTHH:MM:SS is Z, or a '.', any
\* fraction and Z
PlainOrFraction(str) ==
    /\ Len(str) >= 20
    /\ str[Len(str)] = "Z"
    /\ (Len(str) = 20 \/ str[20] = ".")

\* C9: a well-formed timestamp parses to its own date and time, with any
\* fractional suffix and without one; an input that parses in neither form
\* ends in ValueError.
C9_FractionTolerant ==
    pc = "date_done" =>
        /\ PlainOrFraction(date_str) =>
             \A f \in DateFields :
                (WellFormed(f) /\ SubSeq(date_str, 1, 19) = IsoBody(f))
                => parsed = [exc |-> "none", dt |-> <<f.y, f.mo, f.d, f.h, f.mi, f.s>>]
        /\ (TruncatedParse(date_str).exc # "none" /\ FallbackParse(date_str).exc # "none")
             => parsed = [exc |-> "ValueError", dt |-> <<>>]

C9_Witness ==
    /\ pc = "date_done"
    /\ parsed.exc = "none"
    /\ \E f \in DateFields : date_str = WithFraction(f, <<"7", "0">>)

====
